---- MODULE Spec2Model ----
(***************************************************************************)
(* Token based authentification of amivapi (amivapi/authentification.py):  *)
(* TokenAuth.check_auth, _token_response and process_login, run by         *)
(* concurrent requests against one Session table and one User table.       *)
(***************************************************************************)
EXTENDS Integers, Sequences, FiniteSets, TLC

\* ---------------------------------------------------------------- bounds
MaxSessions == 2
MaxTime == 1
\* rows of the User table, and records in one POST
MaxUsers == 4

\* ------------------------------------------------------------ value sets
Requests == {"r1", "r2"}

\* Python's None for a string, and a key missing from the payload
None == "None"
Absent == "absent"
\* a name that is not bound; an attribute g does not have
Unassigned == "unassigned"
Unset == "unset"
\* an optional row or id: <<>> for None or not bound, <<v>> for the value v
Nothing == <<>>
Some(v) == <<v>>

\* values b64encode(urandom(256)) can take; an API key is a string as well
TokenValues == {"t1", "k1"}
APIKEYS == {"k1"}
Credentials == TokenValues \cup {"xxx"}

Usernames == {"user1", "ghost"}
Passwords == {"pw1", "bad"}

\* g.logged_in_user of an apikey
SentinelId == -1
\* the user id process_login passes to _token_response after LDAP success
RootId == 0

\* outcomes of app.ldap_connector.authenticate
LdapOutcomes == {"true", "false", "raise"}

\* salts urandom gives create_new_hash
Salts == {"s1", "s2"}
\* what create_new_hash(None) does: it fails, or it digests the value
HashNoneOutcomes == {"raise", "digest"}
\* the hooks' callers: POST (insert), PATCH (update), PUT (replace)
Methods == {"insert", "update", "replace"}
\* the user a PATCH or PUT addresses
TargetUser == 1

\* ------------------------------------------------------------ the state
VARIABLES config, users, sessions, now, req

vars == <<config, users, sessions, now, req>>

\* ------------------------------------------------------ library helpers
\* amivapi.utils.create_new_hash: a salted digest of the plaintext
create_new_hash(plain, salt) == "pbkdf2$" \o salt \o "$" \o plain

\* amivapi.utils.check_hash: does the plaintext match the digest
check_hash(plain, digest) ==
    \E salt \in Salts : digest = create_new_hash(plain, salt)

\* eve.utils.debug_error_message: the message in debug mode only
debug_error_message(msg) == IF config.DEBUG THEN msg ELSE None

\* ------------------------------------------------------ storage queries
\* query(models.User).filter_by(username=...).first()
FirstUser(us, name) ==
    LET hits == {i \in DOMAIN us : us[i].username = name}
    IN IF hits = {} THEN Nothing
       ELSE Some(CHOOSE i \in hits : \A j \in hits : i <= j)

\* the count of a query that matches nothing
CountToken_m(ss, token) == 0

\* query(models.Session).filter_by(token=token).count()
CountToken(ss, token) ==
    Cardinality({i \in DOMAIN ss : ss[i].token = token})

\* the query without its filter
SessionsWithToken_m(ss, token) == DOMAIN ss

\* query(models.Session).filter(models.Session.token == token)
SessionsWithToken(ss, token) == {i \in DOMAIN ss : ss[i].token = token}

\* post_internal('sessions', {'user_id': user_id, 'token': token})
InsertSession(ss, user_id, token, time) ==
    Append(ss, [token |-> token, user_id |-> user_id,
                _created |-> time, _updated |-> time])

\* the apikey test never matching
IsApikey_m(token) == token \in {}

\* token in config.APIKEYS
IsApikey(token) == token \in APIKEYS

\* --------------------------------------------------------- one request
IdleRequest ==
    [pc |-> "idle", username |-> Absent, password |-> Absent,
     cred |-> Absent, queried |-> FALSE, user |-> Nothing,
     ldap |-> "notcalled", error |-> "", user_id |-> Nothing,
     token |-> Unassigned, sess |-> Nothing, logged_in_user |-> Nothing,
     apikey |-> Unset, status |-> 0, description |-> None,
     body |-> Nothing, method |-> "none", payload |-> <<>>,
     items |-> <<>>, hasher_calls |-> <<>>]

\* abort(code, description=...)
abort(r, code, description) ==
    [r EXCEPT !.pc = "done", !.status = code, !.description = description]

Init ==
    /\ config \in [ENABLE_LDAP : BOOLEAN, DEBUG : BOOLEAN]
    /\ users = (0 :> [username |-> "root",
                      password |-> create_new_hash("rootpw", "s1"),
                      _author |-> SentinelId]
                @@ 1 :> [username |-> "user1",
                         password |-> create_new_hash("pw1", "s2"),
                         _author |-> SentinelId])
    /\ sessions = <<>>
    /\ now = 0
    /\ req = [r \in Requests |-> IdleRequest]

\* number of logins that have not yet inserted their session
LoginsInFlight ==
    Cardinality({r \in Requests :
        req[r].pc \in {"login_validate", "login_query", "login_ldap",
                       "login_db", "token_gen", "token_loop",
                       "token_post"}})

\* ------------------------------------------------------- process_login
\* POST /sessions arrives with a payload
LoginRequest(r) ==
    /\ req[r].pc = "idle"
    /\ Len(sessions) + LoginsInFlight < MaxSessions
    /\ \E u \in Usernames \cup {Absent}, p \in Passwords \cup {Absent} :
         req' = [req EXCEPT ![r] = [IdleRequest EXCEPT
                     !.pc = "login_validate",
                     !.username = u, !.password = p]]
    /\ UNCHANGED <<config, users, sessions, now>>

\* lines 124-130 with only the username tested
process_login_validate_m(rq) ==
    IF rq.username = Absent
    THEN abort(rq, 422, debug_error_message("Please provide a username."))
    ELSE [rq EXCEPT !.pc = "login_query"]

\* lines 124-130
process_login_validate(rq) ==
    IF rq.username = Absent
    THEN abort(rq, 422, debug_error_message("Please provide a username."))
    ELSE IF rq.password = Absent
    THEN abort(rq, 422, debug_error_message("Please provide the password."))
    ELSE [rq EXCEPT !.pc = "login_query"]

LoginValidate(r) ==
    /\ req[r].pc = "login_validate"
    /\ req' = [req EXCEPT ![r] = process_login_validate(req[r])]
    /\ UNCHANGED <<config, users, sessions, now>>

\* lines 132-136
LoginQueryUser(r) ==
    /\ req[r].pc = "login_query"
    /\ req' = [req EXCEPT ![r] = [req[r] EXCEPT
                  !.pc = "login_ldap", !.queried = TRUE,
                  !.user = FirstUser(users, req[r].username),
                  !.error = ""]]
    /\ UNCHANGED <<config, users, sessions, now>>

\* lines 138-154 with a refusal of the directory ending the login
LoginLdap_m(r) ==
    /\ req[r].pc = "login_ldap"
    /\ IF config.ENABLE_LDAP
       THEN \E outcome \in LdapOutcomes :
              req' = [req EXCEPT ![r] =
                CASE outcome = "true" ->
                       [req[r] EXCEPT !.ldap = outcome,
                                      !.pc = "token_gen",
                                      !.user_id = Some(RootId)]
                  [] outcome = "false" ->
                       abort([req[r] EXCEPT !.ldap = outcome], 401,
                             debug_error_message(
                                "LDAP authentication failed, "))
                  [] outcome = "raise" ->
                       [req[r] EXCEPT !.ldap = outcome,
                                      !.pc = "done",
                                      !.status = 500]]
       ELSE req' = [req EXCEPT ![r] = [req[r] EXCEPT
                       !.pc = "login_db",
                       !.error = @ \o "LDAP authentication deactivated; "]]
    /\ UNCHANGED <<config, users, sessions, now>>

\* lines 138-154
LoginLdap(r) ==
    /\ req[r].pc = "login_ldap"
    /\ IF config.ENABLE_LDAP
       THEN \E outcome \in LdapOutcomes :
              req' = [req EXCEPT ![r] =
                CASE outcome = "true" ->
                       [req[r] EXCEPT !.ldap = outcome,
                                      !.pc = "token_gen",
                                      !.user_id = Some(RootId)]
                  [] outcome = "false" ->
                       [req[r] EXCEPT !.ldap = outcome,
                                      !.pc = "login_db",
                                      !.error = @ \o
                                         "LDAP authentication failed, "]
                  \* no try around the call: the exception leaves the view
                  [] outcome = "raise" ->
                       [req[r] EXCEPT !.ldap = outcome,
                                      !.pc = "done",
                                      !.status = 500]]
       ELSE req' = [req EXCEPT ![r] = [req[r] EXCEPT
                       !.pc = "login_db",
                       !.error = @ \o "LDAP authentication deactivated; "]]
    /\ UNCHANGED <<config, users, sessions, now>>

\* lines 156-172 with the error text handed to abort as it is
process_login_db_m(rq) ==
    IF rq.user # Nothing
    THEN IF check_hash(rq.password, users[rq.user[1]].password)
         THEN [rq EXCEPT !.pc = "token_gen", !.user_id = rq.user]
         ELSE LET error == rq.error \o
                   "Login with db failed: Password does not match!"
              IN abort([rq EXCEPT !.error = error], 401, error)
    ELSE LET error == rq.error \o "Login with db failed: User not found!"
         IN abort([rq EXCEPT !.error = error], 401, error)

\* lines 156-172
process_login_db(rq) ==
    IF rq.user # Nothing
    THEN IF check_hash(rq.password, users[rq.user[1]].password)
         THEN [rq EXCEPT !.pc = "token_gen", !.user_id = rq.user]
         ELSE LET error == rq.error \o
                   "Login with db failed: Password does not match!"
              IN abort([rq EXCEPT !.error = error], 401,
                       debug_error_message(error))
    ELSE LET error == rq.error \o "Login with db failed: User not found!"
         IN abort([rq EXCEPT !.error = error], 401,
                  debug_error_message(error))

\* lines 156-172 with the session stored before the password is tested
LoginDb_m(r) ==
    /\ req[r].pc = "login_db"
    /\ req' = [req EXCEPT ![r] = process_login_db(req[r])]
    /\ sessions' = IF req[r].user # Nothing
                   THEN Append(sessions,
                               [token |-> "t1", user_id |-> req[r].user[1],
                                _created |-> now, _updated |-> now])
                   ELSE sessions
    /\ UNCHANGED <<config, users, now>>

LoginDb(r) ==
    /\ req[r].pc = "login_db"
    /\ req' = [req EXCEPT ![r] = process_login_db(req[r])]
    /\ UNCHANGED <<config, users, sessions, now>>

\* ----------------------------------------------------- _token_response
\* line 91
TokenGenerate(r) ==
    /\ req[r].pc = "token_gen"
    /\ \E t \in TokenValues :
         req' = [req EXCEPT ![r] = [req[r] EXCEPT
                    !.pc = "token_loop", !.token = t]]
    /\ UNCHANGED <<config, users, sessions, now>>

\* lines 93-96, the candidate is in storage: draw another one
TokenRetry(r) ==
    /\ req[r].pc = "token_loop"
    /\ CountToken(sessions, req[r].token) # 0
    /\ \E t \in TokenValues :
         req' = [req EXCEPT ![r] = [req[r] EXCEPT !.token = t]]
    /\ UNCHANGED <<config, users, sessions, now>>

\* lines 93-95 with a free candidate thrown away and the issue begun again
TokenUnique_m(r) ==
    /\ req[r].pc = "token_loop"
    /\ CountToken(sessions, req[r].token) = 0
    /\ req' = [req EXCEPT ![r] = [req[r] EXCEPT !.pc = "token_gen"]]
    /\ UNCHANGED <<config, users, sessions, now>>

\* lines 93-95, the candidate is not in storage: leave the loop
TokenUnique(r) ==
    /\ req[r].pc = "token_loop"
    /\ CountToken(sessions, req[r].token) = 0
    /\ req' = [req EXCEPT ![r] = [req[r] EXCEPT !.pc = "token_post"]]
    /\ UNCHANGED <<config, users, sessions, now>>

\* lines 98-106 and send_response('sessions', ...)
TokenPost(r) ==
    /\ req[r].pc = "token_post"
    /\ sessions' = InsertSession(sessions, req[r].user_id[1],
                                 req[r].token, now)
    /\ req' = [req EXCEPT ![r] = [req[r] EXCEPT
                  !.pc = "done", !.status = 201,
                  !.body = Some([id |-> Len(sessions) + 1,
                                 user_id |-> req[r].user_id[1],
                                 token |-> req[r].token])]]
    /\ UNCHANGED <<config, users, now>>

\* ------------------------------------------------- TokenAuth.check_auth
\* a request to a protected endpoint arrives with a credential
AuthRequest(r) ==
    /\ req[r].pc = "idle"
    /\ \E c \in Credentials :
         req' = [req EXCEPT ![r] = [IdleRequest EXCEPT
                    !.pc = "auth_apikey", !.cred = c]]
    /\ UNCHANGED <<config, users, sessions, now>>

\* lines 61-65
CheckApikey(r) ==
    /\ req[r].pc = "auth_apikey"
    /\ req' = [req EXCEPT ![r] =
         IF IsApikey(req[r].cred)
         THEN [req[r] EXCEPT !.pc = "done", !.status = 200,
                             !.logged_in_user = Some(SentinelId),
                             !.apikey = req[r].cred]
         ELSE [req[r] EXCEPT !.pc = "auth_lookup"]]
    /\ UNCHANGED <<config, users, sessions, now>>

\* lines 67-76: .one() gives the row, NoResultFound or MultipleResultsFound
CheckLookup(r) ==
    /\ req[r].pc = "auth_lookup"
    /\ LET hits == SessionsWithToken(sessions, req[r].cred)
       IN req' = [req EXCEPT ![r] =
            IF hits = {}
            THEN abort(req[r], 401, debug_error_message(
                     "Access denied for GET users: unknown token "
                        \o req[r].cred))
            ELSE IF Cardinality(hits) = 1
            THEN [req[r] EXCEPT !.pc = "auth_touch",
                                !.sess = Some(CHOOSE i \in hits : TRUE)]
            ELSE [req[r] EXCEPT !.pc = "done", !.status = 500]]
    /\ UNCHANGED <<config, users, sessions, now>>

\* lines 78-83 with the time written to every session of the user
CheckTouch_m(r) ==
    /\ req[r].pc = "auth_touch"
    /\ sessions' = [i \in DOMAIN sessions |->
                      IF sessions[i].user_id =
                            sessions[req[r].sess[1]].user_id
                      THEN [sessions[i] EXCEPT !._updated = now]
                      ELSE sessions[i]]
    /\ req' = [req EXCEPT ![r] = [req[r] EXCEPT
                  !.pc = "done", !.status = 200,
                  !.logged_in_user =
                     Some(sessions[req[r].sess[1]].user_id)]]
    /\ UNCHANGED <<config, users, now>>

\* lines 78-83
CheckTouch(r) ==
    /\ req[r].pc = "auth_touch"
    /\ sessions' = [sessions EXCEPT ![req[r].sess[1]]._updated = now]
    /\ req' = [req EXCEPT ![r] = [req[r] EXCEPT
                  !.pc = "done", !.status = 200,
                  !.logged_in_user =
                     Some(sessions[req[r].sess[1]].user_id)]]
    /\ UNCHANGED <<config, users, now>>

\* ---------------------------------------------- hooks on user records
\* the records a POST, PATCH or PUT on /users carries: password is Absent
\* (no such key), None or a plaintext; _author may be sent by the client
PasswordValues == {Absent, None, "pw1"}
AuthorValues == {Nothing, Some(TargetUser)}

\* fields: the values the records of a request are drawn from
PayloadsOf(method, room, fields) ==
    IF method = "insert"
    THEN UNION {[1..n -> fields] : n \in 1..room}
    ELSE [1..1 -> fields]

\* rows that POSTs under way will add to the User table
InsertsInFlight ==
    LET pending(r) == IF req[r].method = "insert" /\ req[r].pc # "done"
                      THEN Len(req[r].items) ELSE 0
        RECURSIVE Sum(_)
        Sum(R) == IF R = {} THEN 0
                  ELSE LET r == CHOOSE x \in R : TRUE
                       IN pending(r) + Sum(R \ {r})
    IN Sum(Requests)

UserRoom == MaxUsers - Cardinality(DOMAIN users) - InsertsInFlight

\* a write on /users by a caller check_auth has let through
WriteRequest(r, fields) ==
    /\ req[r].pc = "done"
    /\ req[r].cred # Absent
    /\ req[r].status = 200
    /\ req[r].method = "none"
    /\ \E m \in Methods :
         /\ m = "insert" => UserRoom > 0
         /\ \E p \in PayloadsOf(m, UserRoom, fields) :
              req' = [req EXCEPT ![r] = [req[r] EXCEPT
                         !.pc = "hook_hash", !.status = 0, !.method = m,
                         !.payload = p, !.items = p]]
    /\ UNCHANGED <<config, users, sessions, now>>

\* a write on a resource whose method is public: check_auth does not run
PublicWriteRequest(r, fields) ==
    /\ req[r].pc = "idle"
    /\ \E m \in Methods :
         /\ m = "insert" => UserRoom > 0
         /\ \E p \in PayloadsOf(m, UserRoom, fields) :
              req' = [req EXCEPT ![r] = [IdleRequest EXCEPT
                         !.pc = "hook_hash", !.method = m,
                         !.payload = p, !.items = p]]
    /\ UNCHANGED <<config, users, sessions, now>>

\* lines 185-187 storing the plaintext
hash_password_before_insert_m(us, salts) == us

\* lines 185-187 when create_new_hash returns for every record
hash_password_before_insert(us, salts) ==
    [i \in DOMAIN us |->
        IF us[i].password # Absent
        THEN [us[i] EXCEPT
                 !.password = create_new_hash(us[i].password, salts[i])]
        ELSE us[i]]

\* the arguments create_new_hash is called with for the first n records
HasherCalls(us, n) ==
    LET called == SelectSeq(SubSeq(us, 1, n),
                            LAMBDA u : u.password # Absent)
    IN [i \in DOMAIN called |-> called[i].password]

\* the records create_new_hash is given None for
NonePasswords(us) == {i \in DOMAIN us : us[i].password = None}

\* lines 182-197: hash_password_before_insert / _update / _replace
HashPassword(r) ==
    /\ req[r].pc = "hook_hash"
    /\ \E salts \in [DOMAIN req[r].items -> Salts],
          onNone \in HashNoneOutcomes :
         LET us == req[r].items
             hashed == hash_password_before_insert(us, salts)
         IN IF onNone = "raise" /\ NonePasswords(us) # {}
            THEN LET k == CHOOSE i \in NonePasswords(us) :
                            \A j \in NonePasswords(us) : i <= j
                 IN req' = [req EXCEPT ![r] = [req[r] EXCEPT
                       !.pc = "done", !.status = 500,
                       !.items = [i \in DOMAIN us |->
                                    IF i < k THEN hashed[i] ELSE us[i]],
                       !.hasher_calls = HasherCalls(us, k)]]
            ELSE req' = [req EXCEPT ![r] = [req[r] EXCEPT
                       !.pc = IF req[r].method = "update"
                              THEN "persist" ELSE "hook_author",
                       !.items = hashed,
                       !.hasher_calls = HasherCalls(us, Len(us))]]
    /\ UNCHANGED <<config, users, sessions, now>>

\* g.logged_in_user kept in one place for all requests
g_logged_in_user_m(r) ==
    LET set == {q \in Requests : req[q].logged_in_user # Nothing}
    IN IF set = {} THEN Nothing
       ELSE req[CHOOSE q \in set : \A o \in set : q = o \/ q # r]
               .logged_in_user

\* g.logged_in_user of the request that runs
g_logged_in_user(r) == req[r].logged_in_user

\* lines 209-211 leaving an _author the record came with
set_author_on_insert_m(r, items) ==
    LET _author == IF g_logged_in_user(r) = Nothing THEN SentinelId
                   ELSE g_logged_in_user(r)[1]
    IN [i \in DOMAIN items |->
          IF items[i]._author = Nothing
          THEN [items[i] EXCEPT !._author = Some(_author)]
          ELSE items[i]]

\* lines 209-211: getattr(g, 'logged_in_user', -1) on every item
set_author_on_insert(r, items) ==
    LET _author == IF g_logged_in_user(r) = Nothing THEN SentinelId
                   ELSE g_logged_in_user(r)[1]
    IN [i \in DOMAIN items |-> [items[i] EXCEPT !._author = Some(_author)]]

\* lines 207-217: set_author_on_insert / set_author_on_replace
SetAuthor(r) ==
    /\ req[r].pc = "hook_author"
    /\ req' = [req EXCEPT ![r] = [req[r] EXCEPT
                  !.pc = "persist",
                  !.items = set_author_on_insert(r, req[r].items)]]
    /\ UNCHANGED <<config, users, sessions, now>>

\* the row a record becomes
UserRow(item, name) ==
    [username |-> name,
     password |-> IF item.password = Absent THEN None ELSE item.password,
     _author |-> item._author[1]]

\* the records reach the User table
Persist(r) ==
    /\ req[r].pc = "persist"
    /\ LET items == req[r].items
           n == Cardinality(DOMAIN users)
       IN users' =
            CASE req[r].method = "insert" ->
                   [i \in 0..(n + Len(items) - 1) |->
                      IF i < n THEN users[i]
                      ELSE UserRow(items[i - n + 1], "new")]
              [] req[r].method = "replace" ->
                   [users EXCEPT ![TargetUser] =
                      UserRow(items[1], users[TargetUser].username)]
              [] req[r].method = "update" ->
                   [users EXCEPT ![TargetUser].password =
                      IF items[1].password = Absent THEN @
                      ELSE items[1].password]
    /\ req' = [req EXCEPT ![r] = [req[r] EXCEPT
                  !.pc = "done",
                  !.status = IF req[r].method = "insert" THEN 201 ELSE 200]]
    /\ UNCHANGED <<config, sessions, now>>

\* ------------------------------------------------------- environment
\* the response is sent and the request context is torn down
Finish(r) ==
    /\ req[r].pc = "done"
    /\ req' = [req EXCEPT ![r] = IdleRequest]
    /\ UNCHANGED <<config, users, sessions, now>>

\* datetime.utcnow() advances
Tick ==
    /\ now < MaxTime
    /\ now' = now + 1
    /\ UNCHANGED <<config, users, sessions, req>>

Next ==
    \/ \E r \in Requests : LoginRequest(r)
    \/ \E r \in Requests : LoginValidate(r)
    \/ \E r \in Requests : LoginQueryUser(r)
    \/ \E r \in Requests : LoginLdap(r)
    \/ \E r \in Requests : LoginDb(r)
    \/ \E r \in Requests : TokenGenerate(r)
    \/ \E r \in Requests : TokenRetry(r)
    \/ \E r \in Requests : TokenUnique(r)
    \/ \E r \in Requests : TokenPost(r)
    \/ \E r \in Requests : AuthRequest(r)
    \/ \E r \in Requests : CheckApikey(r)
    \/ \E r \in Requests : CheckLookup(r)
    \/ \E r \in Requests : CheckTouch(r)
    \/ \E r \in Requests : Finish(r)
    \/ Tick

Spec == Init /\ [][Next]_vars

\* no other request is under way
Alone(r) == \A q \in Requests \ {r} : req[q].pc = "idle"

\* ---- one request at a time
SeqNext ==
    \/ \E r \in Requests : Alone(r) /\ LoginRequest(r)
    \/ \E r \in Requests : Alone(r) /\ LoginValidate(r)
    \/ \E r \in Requests : Alone(r) /\ LoginQueryUser(r)
    \/ \E r \in Requests : Alone(r) /\ LoginLdap(r)
    \/ \E r \in Requests : Alone(r) /\ LoginDb(r)
    \/ \E r \in Requests : Alone(r) /\ TokenGenerate(r)
    \/ \E r \in Requests : Alone(r) /\ TokenRetry(r)
    \/ \E r \in Requests : Alone(r) /\ TokenUnique(r)
    \/ \E r \in Requests : Alone(r) /\ TokenPost(r)
    \/ \E r \in Requests : Alone(r) /\ AuthRequest(r)
    \/ \E r \in Requests : Alone(r) /\ CheckApikey(r)
    \/ \E r \in Requests : Alone(r) /\ CheckLookup(r)
    \/ \E r \in Requests : Alone(r) /\ CheckTouch(r)
    \/ \E r \in Requests : Alone(r) /\ Finish(r)
    \/ Tick

SeqSpec == Init /\ [][SeqNext]_vars

\* ---- concurrent requests that are scheduled fairly, with urandom giving
\* every token value again and again
Fairness ==
    \A r \in Requests :
        /\ WF_vars(TokenUnique(r))
        /\ WF_vars(TokenPost(r))
        /\ \A t \in TokenValues :
               SF_vars(TokenRetry(r) /\ req'[r].token = t)

\* the steps of the requests; the clock plays no part in the loop
LiveNext ==
    \/ \E r \in Requests : LoginRequest(r)
    \/ \E r \in Requests : LoginValidate(r)
    \/ \E r \in Requests : LoginQueryUser(r)
    \/ \E r \in Requests : LoginLdap(r)
    \/ \E r \in Requests : LoginDb(r)
    \/ \E r \in Requests : TokenGenerate(r)
    \/ \E r \in Requests : TokenRetry(r)
    \/ \E r \in Requests : TokenUnique(r)
    \/ \E r \in Requests : TokenPost(r)
    \/ \E r \in Requests : AuthRequest(r)
    \/ \E r \in Requests : CheckApikey(r)
    \/ \E r \in Requests : CheckLookup(r)
    \/ \E r \in Requests : CheckTouch(r)
    \/ \E r \in Requests : Finish(r)

LiveSpec == Init /\ [][LiveNext]_vars /\ Fairness

\* ---- writes on /users by callers that hold a token, an apikey or nothing
HookInit ==
    /\ config = [ENABLE_LDAP |-> FALSE, DEBUG |-> FALSE]
    /\ users = (0 :> [username |-> "root",
                      password |-> create_new_hash("rootpw", "s1"),
                      _author |-> SentinelId]
                @@ 1 :> [username |-> "user1",
                         password |-> create_new_hash("pw1", "s2"),
                         _author |-> SentinelId])
    /\ sessions = <<[token |-> "t1", user_id |-> 1,
                     _created |-> 0, _updated |-> 0]>>
    /\ now = 0
    /\ req = [r \in Requests |-> IdleRequest]

\* records that differ in the password, and records that differ in _author
PasswordRecords == [password : PasswordValues, _author : {Nothing}]
AuthorRecords == [password : {Absent}, _author : AuthorValues]

\* one request at a time, records with and without passwords
HookNext ==
    \/ \E r \in Requests : Alone(r) /\ AuthRequest(r)
    \/ \E r \in Requests : Alone(r) /\ CheckApikey(r)
    \/ \E r \in Requests : Alone(r) /\ CheckLookup(r)
    \/ \E r \in Requests : Alone(r) /\ CheckTouch(r)
    \/ \E r \in Requests : Alone(r) /\ WriteRequest(r, PasswordRecords)
    \/ \E r \in Requests : Alone(r) /\ PublicWriteRequest(r, PasswordRecords)
    \/ \E r \in Requests : Alone(r) /\ HashPassword(r)
    \/ \E r \in Requests : Alone(r) /\ SetAuthor(r)
    \/ \E r \in Requests : Alone(r) /\ Persist(r)
    \/ \E r \in Requests : Alone(r) /\ Finish(r)

HookSpec == HookInit /\ [][HookNext]_vars

\* concurrent requests, records without passwords
ContextNext ==
    \/ \E r \in Requests : AuthRequest(r)
    \/ \E r \in Requests : CheckApikey(r)
    \/ \E r \in Requests : CheckLookup(r)
    \/ \E r \in Requests : CheckTouch(r)
    \/ \E r \in Requests : WriteRequest(r, AuthorRecords)
    \/ \E r \in Requests : PublicWriteRequest(r, AuthorRecords)
    \/ \E r \in Requests : HashPassword(r)
    \/ \E r \in Requests : SetAuthor(r)
    \/ \E r \in Requests : Persist(r)
    \/ \E r \in Requests : Finish(r)

ContextSpec == HookInit /\ [][ContextNext]_vars

TypeOK ==
    /\ now \in 0..MaxTime
    /\ Len(sessions) <= MaxSessions

\* ------------------------------------------------------------- claims
\* a request that runs process_login / check_auth
IsLogin(r) ==
    req[r].pc # "idle" /\ req[r].cred = Absent /\ req[r].method = "none"
IsAuth(r) == req[r].cred # Absent

\* the stored user a login names, and whether its password verifies
NamedUsers(r) == {i \in DOMAIN users : users[i].username = req[r].username}
PasswordVerifies(r) ==
    \E i \in NamedUsers(r), salt \in Salts :
        users[i].password = create_new_hash(req[r].password, salt)

\* C1: no two sessions in storage ever hold the same token.
C1_NoDuplicateTokens ==
    \A i, j \in DOMAIN sessions :
        i # j => sessions[i].token # sessions[j].token

\* C2: a finished login that names a stored user with a password that
\* verifies (and whose directory call, if any, returned) has status 201, its
\* session belongs to that user, its token is held by that session only, and
\* a check_auth that resolved the returned token resolved it to that user.
C2_LocalLoginMintsForUser ==
    \A r \in Requests :
        (IsLogin(r) /\ req[r].pc = "done" /\ PasswordVerifies(r)
           /\ req[r].ldap # "raise") =>
            /\ req[r].status = 201
            /\ req[r].body # Nothing
            /\ req[r].body[1].user_id \in NamedUsers(r)
            /\ sessions[req[r].body[1].id].user_id \in NamedUsers(r)
            /\ {i \in DOMAIN sessions :
                   sessions[i].token = req[r].body[1].token}
                 = {req[r].body[1].id}
            /\ \A a \in Requests :
                 (IsAuth(a) /\ req[a].pc = "done" /\ req[a].status = 200
                    /\ req[a].cred = req[r].body[1].token) =>
                     /\ req[a].logged_in_user # Nothing
                     /\ req[a].logged_in_user[1] \in NamedUsers(r)

\* C3: a session minted after the directory accepted a username belongs to
\* the local user record of that username.
C3_LdapSessionForNamedUser ==
    \A r \in Requests :
        (IsLogin(r) /\ req[r].ldap = "true" /\ req[r].pc = "done") =>
            /\ NamedUsers(r) # {}
            /\ req[r].body[1].user_id \in NamedUsers(r)

\* C4: a finished login with both fields present in which no phase
\* succeeded (the directory did not accept, and the username is unknown or
\* the password does not verify) has status 401.
C4_NoPhaseSucceeds401 ==
    \A r \in Requests :
        (IsLogin(r) /\ req[r].pc = "done"
           /\ req[r].username # Absent /\ req[r].password # Absent
           /\ req[r].ldap # "true" /\ ~PasswordVerifies(r)) =>
            req[r].status = 401

\* C5: a login whose payload lacks username or password ends with 422 at
\* the validation, with no user looked up, no directory call, no token
\* drawn and no session created.
C5_MissingField422 ==
    \A r \in Requests :
        (IsLogin(r) /\ req[r].pc # "login_validate"
           /\ (req[r].username = Absent \/ req[r].password = Absent)) =>
            /\ req[r].pc = "done"
            /\ req[r].status = 422
            /\ ~req[r].queried
            /\ req[r].ldap = "notcalled"
            /\ req[r].token = Unassigned
            /\ req[r].body = Nothing

C5_Witness ==
    \E r \in Requests :
        /\ IsLogin(r) /\ req[r].pc = "done" /\ req[r].status = 422
        /\ req[r].username = "user1" /\ req[r].password = Absent
        /\ Len(sessions) > 0

\* C6: the lookup of a credential that is no API key and no stored token
\* ends check_auth with 401, no identity and no apikey on g, and storage
\* untouched.
C6_UnknownCredential401 ==
    [][\A r \in Requests :
         (req[r].pc = "auth_lookup" /\ req'[r] # req[r]
            /\ req[r].cred \notin APIKEYS
            /\ \A i \in DOMAIN sessions : sessions[i].token # req[r].cred) =>
             /\ req'[r].pc = "done"
             /\ req'[r].status = 401
             /\ req'[r].logged_in_user = Nothing
             /\ req'[r].apikey = Unset
             /\ sessions' = sessions]_vars

C6_Witness ==
    \E r \in Requests :
        /\ IsAuth(r) /\ req[r].pc = "done" /\ req[r].status = 401
        /\ req[r].cred \notin APIKEYS
        /\ Len(sessions) > 0
        /\ \A i \in DOMAIN sessions : sessions[i].token # req[r].cred

\* C7: the lookup of a credential that is the token of a stored session
\* finds a session with that token, and the step after it ends check_auth
\* with success, that session's user_id as identity and that session's
\* _updated set to the current time.
C7_TokenAuthTouches ==
    [][\A r \in Requests :
         /\ (req[r].pc = "auth_lookup" /\ req'[r] # req[r]
               /\ \E i \in DOMAIN sessions :
                     sessions[i].token = req[r].cred) =>
                /\ req'[r].pc = "auth_touch"
                /\ req'[r].sess # Nothing
                /\ sessions[req'[r].sess[1]].token = req[r].cred
         /\ (req[r].pc = "auth_touch" /\ req'[r] # req[r]) =>
                /\ req'[r].pc = "done"
                /\ req'[r].status = 200
                /\ req'[r].logged_in_user =
                      Some(sessions[req[r].sess[1]].user_id)
                /\ sessions'[req[r].sess[1]]._updated = now]_vars

\* C8: a credential that is a configured API key ends check_auth with
\* success, identity -1 and g.apikey set to the key.
C8_ApikeyAuth ==
    \A r \in Requests :
        (IsAuth(r) /\ req[r].pc # "auth_apikey"
           /\ req[r].cred \in APIKEYS) =>
            /\ req[r].pc = "done"
            /\ req[r].status = 200
            /\ req[r].logged_in_user = Some(-1)
            /\ req[r].apikey = req[r].cred

C8_Witness ==
    \E r \in Requests :
        /\ IsAuth(r) /\ req[r].pc = "done" /\ req[r].cred = "k1"
        /\ req[r].apikey = "k1"
        /\ \E i \in DOMAIN sessions : sessions[i].token = "k1"

\* C9 as stated: any two logins that ended with 401 got the same status
\* and message.
C9_Uniform401 ==
    \A r, q \in Requests :
        (IsLogin(r) /\ IsLogin(q) /\ req[r].pc = "done"
           /\ req[q].pc = "done"
           /\ req[r].status = 401 /\ req[q].status = 401) =>
            req[r].description = req[q].description

\* C9 amended: outside debug mode any two logins that ended with 401 got
\* the same status and message.
C9_Uniform401NoDebug ==
    ~config.DEBUG => C9_Uniform401

C9_Witness ==
    /\ ~config.DEBUG
    /\ \E r, q \in Requests :
         /\ IsLogin(r) /\ IsLogin(q)
         /\ req[r].pc = "done" /\ req[q].pc = "done"
         /\ req[r].status = 401 /\ req[q].status = 401
         /\ NamedUsers(r) = {} /\ NamedUsers(q) # {}

\* C10: a login whose directory call raised ends with 201 when the local
\* password verifies and with 401 otherwise.
C10_LdapErrorDegrades ==
    \A r \in Requests :
        (IsLogin(r) /\ req[r].ldap = "raise" /\ req[r].pc = "done") =>
            req[r].status = IF PasswordVerifies(r) THEN 201 ELSE 401
\* the identity g holds for a request, -1 when it holds none
IdentityOnG(r) ==
    IF req[r].logged_in_user = Nothing THEN -1 ELSE req[r].logged_in_user[1]

\* C11: the step of set_author_on_insert / set_author_on_replace always
\* completes, and gives every record the identity on g as _author (-1 when
\* g holds none), whatever _author the record came with; it changes nothing
\* else.
C11_AuthorIsIdentity ==
    [][\A r \in Requests :
         (req[r].pc = "hook_author" /\ req'[r] # req[r]) =>
             /\ req'[r].pc = "persist"
             /\ req'[r].status # 500
             /\ DOMAIN req'[r].items = DOMAIN req[r].items
             /\ \A i \in DOMAIN req[r].items :
                  /\ req'[r].items[i]._author = Some(IdentityOnG(r))
                  /\ req'[r].items[i].password = req[r].items[i].password
       ]_vars

C11_Witness ==
    \E r, q \in Requests :
        /\ req[r].method = "insert" /\ req[r].pc = "persist"
        /\ req[r].payload[1]._author = Some(TargetUser)
        /\ req[r].logged_in_user = Nothing
        /\ req[r].items[1]._author = Some(-1)
        /\ req[q].method = "replace" /\ req[q].pc = "persist"
        /\ req[q].logged_in_user = Some(1)
        /\ req[q].items[1]._author = Some(1)

\* C12: when the hash hook has run, every record that came with a plaintext
\* password holds a digest that differs from the plaintext and verifies
\* against it, every record without a password field is unchanged, and no
\* row of the User table ever holds a plaintext.
C12_PasswordsHashed ==
    [][/\ \A r \in Requests :
            (req[r].pc = "hook_hash" /\ req'[r] # req[r]
               /\ req'[r].status # 500) =>
                \A i \in DOMAIN req[r].items :
                    /\ req[r].items[i].password \notin {Absent, None} =>
                         /\ req'[r].items[i].password
                               # req[r].items[i].password
                         /\ check_hash(req[r].items[i].password,
                                       req'[r].items[i].password)
                    /\ req[r].items[i].password = Absent =>
                         req'[r].items[i] = req[r].items[i]
       /\ \A u \in DOMAIN users' :
            users'[u].password \notin {"pw1", "rootpw", "bad", Absent}
      ]_vars

C12_Witness ==
    \E r \in Requests :
        /\ req[r].method = "insert" /\ req[r].pc = "done"
        /\ req[r].status = 201 /\ Len(req[r].payload) = 2
        /\ req[r].payload[1].password = "pw1"
        /\ req[r].payload[2].password = Absent
        /\ users[2].password = create_new_hash("pw1", "s1")
        /\ users[3].password = None

\* C13: once the hash hook has run on a request's records, the hasher was
\* called for no record whose password is absent or null, and each such
\* record still has its password absent or null.
C13_NullNotHashed ==
    \A r \in Requests :
        (req[r].method # "none" /\ req[r].pc # "hook_hash") =>
            /\ \A k \in DOMAIN req[r].hasher_calls :
                   req[r].hasher_calls[k] # None
            /\ \A i \in DOMAIN req[r].payload :
                   req[r].payload[i].password \in {Absent, None} =>
                       req[r].items[i].password
                          = req[r].payload[i].password

\* what check_auth resolves a request's own credential to
OwnIdentity(r) ==
    IF req[r].cred = Absent \/ req[r].cred \in APIKEYS THEN -1
    ELSE LET i == CHOOSE j \in DOMAIN sessions :
                     sessions[j].token = req[r].cred
         IN sessions[i].user_id

\* C14: the _author a request's records get is the identity check_auth
\* resolved for that request's own credential, -1 when the request ran no
\* check_auth, and g.apikey is set only on a request that sent an apikey.
C14_IdentityRequestScoped ==
    \A r \in Requests :
        /\ (req[r].method \in {"insert", "replace"}
              /\ req[r].pc \in {"persist", "done"}) =>
               \A i \in DOMAIN req[r].items :
                   req[r].items[i]._author = Some(OwnIdentity(r))
        /\ req[r].apikey # Unset =>
               (req[r].cred \in APIKEYS /\ req[r].apikey = req[r].cred)
        /\ req[r].cred = Absent => req[r].logged_in_user = Nothing

C14_Witness ==
    \E r, q \in Requests :
        /\ req[r].method = "insert" /\ req[r].pc = "persist"
        /\ req[r].cred = "t1" /\ req[r].items[1]._author = Some(1)
        /\ req[q].method = "insert" /\ req[q].pc = "persist"
        /\ req[q].cred = Absent /\ req[q].items[1]._author = Some(-1)
        /\ \E o \in Requests : req[o].apikey = Unset
\* C15: the apikey test of a credential that is a configured API key and
\* also the token of a stored session ends check_auth with identity -1 and
\* g.apikey set to the credential; no session is looked up and the Session
\* table, _updated included, stays as it is.
C15_ApikeyBeforeToken ==
    [][\A r \in Requests :
         (req[r].pc = "auth_apikey" /\ req'[r] # req[r]
            /\ req[r].cred \in APIKEYS
            /\ \E i \in DOMAIN sessions : sessions[i].token = req[r].cred) =>
             /\ req'[r].pc = "done"
             /\ req'[r].status = 200
             /\ req'[r].logged_in_user = Some(-1)
             /\ req'[r].apikey = req[r].cred
             /\ req'[r].sess = Nothing
             /\ sessions' = sessions]_vars

C15_Witness ==
    \E r \in Requests :
        /\ req[r].pc = "done" /\ req[r].cred = "k1"
        /\ req[r].logged_in_user = Some(-1) /\ req[r].sess = Nothing
        /\ now = 1
        /\ \E i \in DOMAIN sessions :
              sessions[i].token = "k1" /\ sessions[i]._updated = 0

\* C16: a finished login whose local phase ran, because the directory
\* returned false or because the directory is disabled, has in both cases
\* the outcome the username, the password and the User table decide: 201
\* for a user of that name when the password verifies, 401 otherwise.
C16_LdapFalseAsDisabled ==
    \A r \in Requests :
        (IsLogin(r) /\ req[r].pc = "done"
           /\ req[r].username # Absent /\ req[r].password # Absent
           /\ (req[r].ldap = "false"
                 \/ (req[r].ldap = "notcalled" /\ ~config.ENABLE_LDAP))) =>
            /\ req[r].status = IF PasswordVerifies(r) THEN 201 ELSE 401
            /\ req[r].status = 201 =>
                  req[r].body[1].user_id \in NamedUsers(r)

C16_Witness ==
    \E r \in Requests :
        /\ IsLogin(r) /\ req[r].pc = "done" /\ config.ENABLE_LDAP
        /\ req[r].ldap = "false" /\ req[r].status = 201
        /\ req[r].body[1].user_id = 1

\* C17: with one request at a time, a candidate that is in storage is
\* never inserted (the loop keeps the request and draws again), and the
\* token a login inserts is held by no session stored before.
C17_InsertedTokenIsNew ==
    [][\A r \in Requests :
         /\ (req[r].pc = "token_loop" /\ req'[r] # req[r]
               /\ \E i \in DOMAIN sessions :
                     sessions[i].token = req[r].token) =>
                (req'[r].pc = "token_loop" /\ sessions' = sessions)
         /\ (req[r].pc = "token_post" /\ req'[r] # req[r]) =>
                /\ \A i \in DOMAIN sessions :
                      sessions[i].token # req[r].token
                /\ sessions'[Len(sessions')].token = req[r].token
                /\ Len(sessions') = Len(sessions) + 1]_vars

C17_Witness ==
    /\ Len(sessions) = 2
    /\ sessions[1].token # sessions[2].token
    /\ \E r \in Requests : req[r].pc = "done" /\ req[r].status = 201

\* the order of the steps of a request
Rank(pc) ==
    CASE pc = "idle" -> 0
      [] pc \in {"login_validate", "auth_apikey"} -> 1
      [] pc \in {"login_query", "auth_lookup"} -> 2
      [] pc \in {"login_ldap", "auth_touch"} -> 3
      [] pc = "login_db" -> 4
      [] pc = "token_gen" -> 5
      [] pc = "token_loop" -> 6
      [] pc = "token_post" -> 7
      [] OTHER -> 8

SomeTokenFree == \E t \in TokenValues :
                    \A i \in DOMAIN sessions : sessions[i].token # t

\* C18: a login in the uniqueness loop while some token value is not in
\* storage eventually has inserted its session (or storage has come to hold
\* every token value), and no other step of login or check_auth goes back
\* or stays in place.
C18_LoopTerminates ==
    /\ \A r \in Requests :
          (req[r].pc = "token_loop" /\ SomeTokenFree)
             ~> (req[r].status = 201 \/ ~SomeTokenFree)
    /\ [][\A r \in Requests :
            (req'[r] # req[r] /\ req[r].pc # "done"
               /\ Rank(req'[r].pc) <= Rank(req[r].pc)) =>
                (req[r].pc = "token_loop" /\ req'[r].pc = "token_loop")
         ]_vars

C18_Witness ==
    \E r \in Requests :
        /\ req[r].pc = "token_loop" /\ SomeTokenFree
        /\ \E i \in DOMAIN sessions : sessions[i].token = req[r].token

\* C19: no step of process_login before the token is drawn changes the
\* Session or the User table, and a login that ends with 422 or 401 has
\* drawn no token and posted nothing.
C19_FailedLoginWritesNothing ==
    [][\A r \in Requests :
         (req[r].pc \in {"login_validate", "login_query", "login_ldap",
                         "login_db"} /\ req'[r] # req[r]) =>
             /\ sessions' = sessions
             /\ users' = users
             /\ req'[r].status \in {401, 422} =>
                   /\ req'[r].pc = "done"
                   /\ req'[r].token = Unassigned
                   /\ req'[r].body = Nothing]_vars

C19_Witness ==
    \E r \in Requests :
        /\ IsLogin(r) /\ req[r].pc = "done" /\ req[r].status = 401
        /\ NamedUsers(r) # {}
        /\ Len(sessions) = 1

\* C20: no step removes a session or changes its token or user_id, and a
\* check_auth lookup of a credential that is no API key ends the request
\* without an identity only when no stored session holds the credential.
C20_SessionsStayValid ==
    [][/\ \A i \in DOMAIN sessions :
             /\ i \in DOMAIN sessions'
             /\ sessions'[i].token = sessions[i].token
             /\ sessions'[i].user_id = sessions[i].user_id
       /\ \A r \in Requests :
             (req[r].pc = "auth_lookup" /\ req'[r].pc = "done") =>
                 \A i \in DOMAIN sessions :
                     sessions[i].token # req[r].cred]_vars
\* C21: a step of check_auth leaves the User table, the set of sessions and
\* every session's token, user_id and _created as they are; a session that
\* changes at all changes in the step of lines 78-83 of a request that
\* succeeds, holds the request's token, which is no API key, and is the only
\* one to change; the API key test and the lookup, rejections included,
\* leave storage as it is.
C21_CheckAuthFrame ==
    [][\A r \in Requests :
         (req[r].pc \in {"auth_apikey", "auth_lookup", "auth_touch"}
            /\ req'[r] # req[r]) =>
             /\ users' = users
             /\ DOMAIN sessions' = DOMAIN sessions
             /\ \A i \in DOMAIN sessions :
                   /\ sessions'[i].token = sessions[i].token
                   /\ sessions'[i].user_id = sessions[i].user_id
                   /\ sessions'[i]._created = sessions[i]._created
                   /\ sessions'[i] # sessions[i] =>
                         /\ req[r].pc = "auth_touch"
                         /\ req'[r].status = 200
                         /\ sessions[i].token = req[r].cred
                         /\ req[r].cred \notin APIKEYS
                         /\ \A j \in DOMAIN sessions \ {i} :
                               sessions'[j] = sessions[j]
             /\ (req[r].pc # "auth_touch" \/ req'[r].status # 200) =>
                   sessions' = sessions]_vars

C21_Witness ==
    \E r \in Requests :
        /\ IsAuth(r) /\ req[r].pc = "done" /\ req[r].status = 200
        /\ req[r].cred = "t1" /\ req[r].sess # Nothing
        /\ Len(sessions) = 2
        /\ \E i, j \in DOMAIN sessions :
              /\ i # j
              /\ sessions[i].token = "t1" /\ sessions[i]._created = 0
              /\ sessions[i]._updated = 1
              /\ sessions[j].token # "t1" /\ sessions[j]._updated = 0
              /\ sessions[j].user_id = sessions[i].user_id
====
